---- MODULE Spec2Model ----
(***************************************************************************)
(* REPL;ay telemetry: the SDK's buffering client and instrumentation       *)
(* decorators (packages/repl-ay-sdk), the ingestion endpoint               *)
(* (apps/api routers/events.py) and the trace queries                      *)
(* (apps/api routers/traces.py).                                           *)
(*                                                                         *)
(* The specifications share the variables:                                 *)
(*   Spec         one caller driving the client                            *)
(*   SpecSend     the same, with the event loop running the send tasks     *)
(*   SpecHooks    one caller running decorated functions                   *)
(*   SpecBefore   the calls made before initialize()                       *)
(*   SpecThreads  several threads inside ReplAyClient.track_event          *)
(*   SpecIngest   POST /v1/events and its background storage task          *)
(*   SpecQuery    the append-only event table and the status of a trace    *)
(*   SpecSummary  the event table and the aggregates of the queries         *)
(*   SpecCrew     instrumented CrewAI kickoffs, one inside or beside another*)
(*   SpecGlobal   a program that calls initialize() more than once         *)
(***************************************************************************)
EXTENDS Integers, Sequences, FiniteSets, TLC

VARIABLES
    clients,           \* every ReplAyClient built so far, in construction order
    global_client,     \* _global_client: 0 is None, else an index into clients
    tasks,             \* asyncio tasks created for _send_events_async
    now,               \* time.time()
    next_uuid,         \* uuid.uuid4(): the next fresh value
    stack,             \* decorator wrappers whose wrapped function is running
    invocations,       \* one record per wrapper call, in call order
    last_call,         \* the most recent call of the client API and its outcome
    thr,               \* SpecThreads: each thread's position inside track_event
    joined,            \* SpecThreads: the final flush() has run
    responses,         \* SpecIngest: one record per POST, in order
    background_tasks,  \* SpecIngest: store_events_batch calls not yet run
    storage_log,       \* SpecIngest: how each store_events_batch call ended
    telemetry_events,  \* the telemetry_events table, in arrival order
    next_batch,        \* SpecIngest: uuid4() for batch_id
    active_traces,     \* SpecCrew: CrewAIInstrumentation._active_traces
    crew_start_times,  \* SpecCrew: CrewAIInstrumentation._crew_start_times
    kickoffs           \* SpecCrew: one record per instrumented kickoff call

vars == <<clients, global_client, tasks, now, next_uuid, stack, invocations,
          last_call, thr, joined, responses, background_tasks, storage_log,
          telemetry_events, next_batch, active_traces, crew_start_times,
          kickoffs>>

clientVars == <<clients, global_client, tasks, now, next_uuid, stack,
                invocations, last_call>>
threadVars == <<thr, joined>>
ingestVars == <<responses, background_tasks, storage_log, next_batch>>
crewVars == <<active_traces, crew_start_times, kickoffs>>

----------------------------------------------------------------------------
(* Bounds of the model. *)

MaxClients == 1       \* initialize() calls
MaxRecorded == 3      \* events recorded, over all clients
MaxTime == 2          \* clock ticks
MaxInvocations == 2   \* decorator wrapper calls
MaxBatchSize == 2     \* largest configured batch_size (the smallest is 1)
MaxThreads == 2       \* threads calling track_event at once
CallsPerThread == 1   \* track_event calls each thread makes
MaxRequests == 2      \* POST /v1/events requests
MaxBatchEvents == 2   \* entries in the events list of one request
MaxRows == 5          \* rows of telemetry_events in SpecQuery
Interval == 2         \* the configured flush_interval_seconds, in clock ticks
MaxSummaryRows == 3   \* rows of telemetry_events in SpecSummary
MaxKickoffs == 2      \* instrumented Crew.kickoff calls
MaxInitialize == 2    \* initialize() calls in SpecGlobal

----------------------------------------------------------------------------
(* Values. *)

None == "None"

\* An event type is a string; it is kept as the sequence of its pieces so that
\* a suffix test can be computed: "agent.start" is <<"agent", ".", "start">>.
Dotted(kind, phase) == <<kind, ".", phase>>

HookKinds == {"agent", "task", "tool", "llm"}

\* EventType (types.py): the twelve enumerated values.
EventType == {Dotted(k, p) : k \in HookKinds, p \in {"start", "end", "error"}}

\* The asyncio state of the calling thread, as _flush_events meets it:
\*   "loop"  get_event_loop() returns a loop (whether and when that loop runs
\*           the task is up to the caller's program)
\*   "none"  get_event_loop() raises RuntimeError (no current loop: a worker
\*           thread, or any thread from Python 3.14 on)
LoopModes == {"loop", "none"}

\* The four wrappers of decorators.py are the same code up to the event class,
\* the event_type prefix and the way the *.end event is built from the result:
\* trace_tool stores the result as it is (tool_output: Any), the other three
\* evaluate it first ("if result", str(result), result.choices[0],
\* choice.message.content, tokens_used: int), which can raise. The wrappers
\* the model calls are one of each sort.
DecoratedKinds == {"tool", "llm"}

\* The event types a caller of track_event passes by hand in this model.
ManualTypes == {Dotted("agent", "start")}

RECURSIVE SumRecorded(_)
SumRecorded(cs) ==
    IF cs = <<>> THEN 0 ELSE Len(Head(cs).recorded) + SumRecorded(Tail(cs))

NoCall == [op |-> "none", client |-> 0, len_after |-> 0, elapsed |-> 0,
           buffer_before |-> <<>>, last_flush_before |-> 0, tasks_before |-> 0,
           raised |-> None, slept |-> FALSE]

----------------------------------------------------------------------------
(* ReplAyClient (client.py). *)

\* ReplAyClient.__init__: an empty buffer, _last_flush = time.time().
\* recorded is the history of the events passed to track_event.
NewClient(batch_size, flush_interval_seconds, t) ==
    [batch_size |-> batch_size,
     flush_interval_seconds |-> flush_interval_seconds,
     event_buffer |-> <<>>,
     last_flush |-> t,
     recorded |-> <<>>]

\* ReplAyClient.create_trace_context: trace_id or a fresh uuid, a fresh span_id.
\* u is the next fresh uuid; the result uses u and, without a trace_id, u + 1.
create_trace_context(trace_id, parent_span_id, u) ==
    [trace_id |-> IF trace_id = 0 THEN u + 1 ELSE trace_id,
     span_id |-> u,
     parent_span_id |-> parent_span_id]

\* The auto-flush condition of track_event.
ShouldFlushStrict(c, t) ==
    \/ Len(c.event_buffer) > c.batch_size
    \/ t - c.last_flush > c.flush_interval_seconds

ShouldFlush(c, t) ==
    \/ Len(c.event_buffer) >= c.batch_size
    \/ t - c.last_flush >= c.flush_interval_seconds

\* The tail of _flush_events: hand events_to_send to a task.
\* get_event_loop() either returns a loop, and loop.create_task makes the task,
\* or raises RuntimeError; asyncio.create_task in the handler then needs a
\* running loop, finds none, and raises RuntimeError out of _flush_events.
\* A task is pending until the loop runs it; posts counts the POST requests
\* it has made and result is how the one it made ended.
CreateTaskAndRun(cid, events_to_send, loop) ==
    IF loop = "none"
    THEN [created |-> <<>>, raised |-> "RuntimeError"]
    ELSE [created |-> <<[client |-> cid, events |-> events_to_send,
                         state |-> "done", posts |-> 1, result |-> "200"]>>,
          raised |-> None]

CreateTask(cid, events_to_send, loop) ==
    IF loop = "none"
    THEN [created |-> <<>>, raised |-> "RuntimeError"]
    ELSE [created |-> <<[client |-> cid, events |-> events_to_send,
                         state |-> "pending", posts |-> 0, result |-> None]>>,
          raised |-> None]

\* ReplAyClient._flush_events on client c (index cid) at time t.
FlushEventsEager(c, cid, t, loop) ==
    LET r == CreateTask(cid, c.event_buffer, loop)
    IN  [client |-> [c EXCEPT !.event_buffer = <<>>, !.last_flush = t],
         created |-> r.created, raised |-> r.raised]

FlushEvents(c, cid, t, loop) ==
    IF c.event_buffer = <<>>
    THEN [client |-> c, created |-> <<>>, raised |-> None]
    ELSE LET events_to_send == c.event_buffer
             r == CreateTask(cid, events_to_send, loop)
         IN  [client |-> [c EXCEPT !.event_buffer = <<>>, !.last_flush = t],
              created |-> r.created, raised |-> r.raised]

\* ReplAyClient.track_event on client c.
TrackEvent(c, cid, event, t, loop) ==
    LET c1 == [c EXCEPT !.event_buffer = Append(@, event),
                        !.recorded = Append(@, event)]
    IN  IF ShouldFlush(c1, t)
        THEN FlushEvents(c1, cid, t, loop)
        ELSE [client |-> c1, created |-> <<>>, raised |-> None]

\* What a call leaves in last_call.
CallRecord(op, cid, c, t, raised) ==
    [op |-> op, client |-> cid,
     len_after |-> Len(c.event_buffer) + 1,
     elapsed |-> t - c.last_flush,
     buffer_before |-> c.event_buffer,
     last_flush_before |-> c.last_flush,
     tasks_before |-> Len(tasks),
     raised |-> raised,
     slept |-> (op = "close" /\ raised = None)]

----------------------------------------------------------------------------
(* The module-level interface (client.py) and the clock. *)

\* initialize() that first flushes the client it replaces.
InitializeFlushing(max_clients) ==
    /\ Len(clients) < max_clients
    /\ \E bs \in 1..MaxBatchSize :
           LET old == IF global_client = 0 THEN clients
                      ELSE [clients EXCEPT ![global_client] =
                               FlushEvents(@, global_client, now, "loop").client]
           IN  clients' = Append(old, NewClient(bs, Interval, now))
    /\ tasks' = IF global_client = 0 THEN tasks
                ELSE tasks \o FlushEvents(clients[global_client], global_client,
                                          now, "loop").created
    /\ global_client' = Len(clients) + 1
    /\ last_call' = NoCall
    /\ UNCHANGED <<now, next_uuid, stack, invocations>>
    /\ UNCHANGED <<threadVars, ingestVars, telemetry_events>>
    /\ UNCHANGED crewVars

\* initialize(), called at most max_clients times: build a client and make it
\* the global one. The client that was the global one is left as it is.
InitializeUpTo(max_clients) ==
    /\ Len(clients) < max_clients
    /\ \E bs \in 1..MaxBatchSize :
           clients' = Append(clients, NewClient(bs, Interval, now))
    /\ global_client' = Len(clients) + 1
    /\ last_call' = NoCall
    /\ UNCHANGED <<tasks, now, next_uuid, stack, invocations>>
    /\ UNCHANGED <<threadVars, ingestVars, telemetry_events>>
    /\ UNCHANGED crewVars

Initialize == InitializeUpTo(MaxClients)

\* time passes.
Tick ==
    /\ now < MaxTime
    /\ now' = now + 1
    /\ UNCHANGED <<clients, global_client, tasks, next_uuid, stack,
                   invocations, last_call>>
    /\ UNCHANGED <<threadVars, ingestVars, telemetry_events>>
    /\ UNCHANGED crewVars

\* track_event(event) of the module with no global client: "if client:" is
\* false and the function returns.
NoClientCallFails(op) == [NoCall EXCEPT !.op = op, !.raised = "AttributeError"]

NoClientCall(op) == [NoCall EXCEPT !.op = op]

\* track_event(event) of the module: the global client's track_event, or
\* nothing when there is no client.
TrackEventCall ==
    /\ \E ty \in ManualTypes, loop \in LoopModes :
        IF global_client = 0
        THEN /\ last_call' = NoClientCall("track_event")
             /\ UNCHANGED <<clients, tasks, next_uuid>>
        ELSE LET cid == global_client
                 c == clients[cid]
                 ctx == create_trace_context(0, 0, next_uuid)
                 event == [event_id |-> next_uuid + 2, event_type |-> ty,
                           trace_context |-> ctx]
                 r == TrackEvent(c, cid, event, now, loop)
             IN  /\ SumRecorded(clients) < MaxRecorded
                 /\ clients' = [clients EXCEPT ![cid] = r.client]
                 /\ tasks' = tasks \o r.created
                 /\ next_uuid' = next_uuid + 3
                 /\ last_call' = CallRecord("track_event", cid, c, now, r.raised)
    /\ UNCHANGED <<global_client, now, stack, invocations>>
    /\ UNCHANGED <<threadVars, ingestVars, telemetry_events>>
    /\ UNCHANGED crewVars

\* get_client().flush(): ReplAyClient.flush.
FlushCall ==
    /\ global_client # 0
    /\ \E loop \in LoopModes :
        LET cid == global_client
            c == clients[cid]
            r == FlushEvents(c, cid, now, loop)
        IN  /\ clients' = [clients EXCEPT ![cid] = r.client]
            /\ tasks' = tasks \o r.created
            /\ last_call' = CallRecord("flush", cid, c, now, r.raised)
    /\ UNCHANGED <<global_client, now, next_uuid, stack, invocations>>
    /\ UNCHANGED <<threadVars, ingestVars, telemetry_events>>
    /\ UNCHANGED crewVars

\* get_client().close(): ReplAyClient.close is flush() and then
\* time.sleep(0.1), which is shorter than a tick of the clock. The sleep
\* blocks the calling thread, and the tasks are on that thread's loop
\* (get_event_loop() is the current thread's): no task runs before close()
\* returns. An exception of flush() leaves close() before the sleep.
CloseCall ==
    /\ global_client # 0
    /\ \E loop \in LoopModes :
        LET cid == global_client
            c == clients[cid]
            r == FlushEvents(c, cid, now, loop)
        IN  /\ clients' = [clients EXCEPT ![cid] = r.client]
            /\ tasks' = tasks \o r.created
            /\ last_call' = CallRecord("close", cid, c, now, r.raised)
    /\ UNCHANGED <<global_client, now, next_uuid, stack, invocations>>
    /\ UNCHANGED <<threadVars, ingestVars, telemetry_events>>
    /\ UNCHANGED crewVars

----------------------------------------------------------------------------
(* ReplAyClient._send_events_async, run by the event loop (client.py).       *)

\* How the POST of a batch ends: status 200, another status, or an exception
\* (building the payload, encoding it, or the transport).
PostOutcomes == {"200", "500", "exception"}

\* _send_events_async(events) on client c: one POST; a status other than 200
\* and an exception are printed in debug mode and nothing else is done.
SendEventsAsyncRequeue(c, events, outcome) ==
    [client |-> IF outcome = "200" THEN c
                ELSE [c EXCEPT !.event_buffer = events \o @],
     posts |-> 1, result |-> outcome, raised |-> None]

SendEventsAsync(c, events, outcome) ==
    [client |-> c, posts |-> 1, result |-> outcome, raised |-> None]

\* The event loop runs a pending task to its end. The loop runs only while
\* the calling thread is not inside a call of the client.
RunTask ==
    /\ \E i \in 1..Len(tasks), outcome \in PostOutcomes :
        LET task == tasks[i]
            r == SendEventsAsync(clients[task.client], task.events, outcome)
        IN  /\ task.state = "pending"
            /\ tasks' = [tasks EXCEPT ![i] = [task EXCEPT !.state = "done",
                                                          !.posts = @ + r.posts,
                                                          !.result = r.result]]
            /\ clients' = [clients EXCEPT ![task.client] = r.client]
    /\ UNCHANGED <<global_client, now, next_uuid, stack, invocations, last_call>>
    /\ UNCHANGED <<threadVars, ingestVars, telemetry_events>>
    /\ UNCHANGED crewVars

----------------------------------------------------------------------------
(* The decorators trace_agent, trace_task, trace_tool, trace_llm_call        *)
(* (decorators.py). The four wrappers have the same shape; kind tells them   *)
(* apart.                                                                    *)

\* What the wrapped function does: it returns a value, raises an Exception,
\* or raises a BaseException that is no Exception (KeyboardInterrupt,
\* SystemExit), which "except Exception" does not catch.
FuncOutcomes == {[how |-> "return", value |-> "v"],
                 [how |-> "raise", value |-> "e"],
                 [how |-> "raise", value |-> "KeyboardInterrupt"]}

Running == [how |-> "running", value |-> None]

HookEvent(kind, phase, ctx, u) ==
    [event_id |-> u, event_type |-> Dotted(kind, phase), trace_context |-> ctx]

\* The handler "except Exception as e" of a wrapper, entered with exception exc
\* on client c: record the *.error event, then re-raise exc. An exception of
\* track_event itself leaves the handler in place of exc.
ExceptHandler(c, cid, kind, ctx, exc, u, t, loop) ==
    LET r == TrackEvent(c, cid, HookEvent(kind, "error", ctx, u), t, loop)
    IN  [client |-> r.client, created |-> r.created,
         outcome |-> [how |-> "raise",
                      value |-> IF r.raised # None THEN r.raised ELSE exc]]

\* Whether building the *.end event from the result raises: result_ok says
\* that the result can be evaluated; trace_tool does not evaluate it.
EndEventBuilds(kind, result_ok) == kind = "tool" \/ result_ok

\* The wrapper from the return or raise of the wrapped function to its own
\* return or raise.
WrapperFinish(c, cid, kind, ctx, func, result_ok, u, t, loop) ==
    IF func.how = "return"
    THEN IF ~EndEventBuilds(kind, result_ok)
         THEN ExceptHandler(c, cid, kind, ctx, "EndEventError", u, t, loop)
         ELSE LET r == TrackEvent(c, cid, HookEvent(kind, "end", ctx, u), t, loop)
              IN  IF r.raised = None
                  THEN [client |-> r.client, created |-> r.created,
                        outcome |-> func]
                  ELSE LET h == ExceptHandler(r.client, cid, kind, ctx,
                                              r.raised, u + 1, t, loop)
                       IN  [client |-> h.client,
                            created |-> r.created \o h.created,
                            outcome |-> h.outcome]
    ELSE IF func.value = "e"
         THEN ExceptHandler(c, cid, kind, ctx, func.value, u, t, loop)
         ELSE [client |-> c, created |-> <<>>, outcome |-> func]

\* The invocation whose wrapped function is running when a hook is entered
\* (0: none).
Enclosing(st) == IF st = <<>> THEN 0 ELSE st[Len(st)]

\* A decorated function is called: the wrapper up to the call of func. The
\* wrappers call client.create_trace_context() without arguments.
HookEnter ==
    /\ Len(invocations) < MaxInvocations
    /\ \E kind \in DecoratedKinds, loop \in LoopModes :
        IF global_client = 0
        THEN /\ invocations' = Append(invocations,
                    [kind |-> kind, client |-> 0, parent |-> Enclosing(stack),
                     ctx |-> create_trace_context(0, 0, 0),
                     func_calls |-> 1, func |-> Running, outcome |-> Running])
             /\ stack' = Append(stack, Len(invocations) + 1)
             /\ UNCHANGED <<clients, tasks, next_uuid>>
        ELSE LET cid == global_client
                 c == clients[cid]
                 ctx == create_trace_context(0, 0, next_uuid)
                 r == TrackEvent(c, cid, HookEvent(kind, "start", ctx, next_uuid + 2),
                                 now, loop)
                 inv == [kind |-> kind, client |-> cid,
                         parent |-> Enclosing(stack), ctx |-> ctx,
                         func_calls |-> 0, func |-> Running, outcome |-> Running]
             IN  /\ SumRecorded(clients) < MaxRecorded
                 /\ clients' = [clients EXCEPT ![cid] = r.client]
                 /\ tasks' = tasks \o r.created
                 /\ next_uuid' = next_uuid + 3
                 /\ IF r.raised # None
                    THEN /\ invocations' = Append(invocations,
                                [inv EXCEPT !.outcome =
                                     [how |-> "raise", value |-> r.raised]])
                         /\ UNCHANGED stack
                    ELSE /\ invocations' = Append(invocations,
                                [inv EXCEPT !.func_calls = 1])
                         /\ stack' = Append(stack, Len(invocations) + 1)
    /\ UNCHANGED <<global_client, now, last_call>>
    /\ UNCHANGED <<threadVars, ingestVars, telemetry_events>>
    /\ UNCHANGED crewVars

\* The innermost running wrapped function returns or raises, and its wrapper
\* runs to its end.
FuncFinish ==
    /\ stack # <<>>
    /\ \E func \in FuncOutcomes, result_ok \in BOOLEAN, loop \in LoopModes :
        LET i == stack[Len(stack)]
            inv == invocations[i]
            cid == inv.client
        IN  IF cid = 0
            THEN /\ invocations' = [invocations EXCEPT
                                      ![i].func = func, ![i].outcome = func]
                 /\ UNCHANGED <<clients, tasks, next_uuid>>
            ELSE LET w == WrapperFinish(clients[cid], cid, inv.kind, inv.ctx,
                                        func, result_ok, next_uuid, now, loop)
                 IN  /\ invocations' = [invocations EXCEPT
                                          ![i].func = func,
                                          ![i].outcome = w.outcome]
                     /\ clients' = [clients EXCEPT ![cid] = w.client]
                     /\ tasks' = tasks \o w.created
                     /\ next_uuid' = next_uuid + 2
    /\ stack' = SubSeq(stack, 1, Len(stack) - 1)
    /\ UNCHANGED <<global_client, now, last_call>>
    /\ UNCHANGED <<threadVars, ingestVars, telemetry_events>>
    /\ UNCHANGED crewVars

----------------------------------------------------------------------------
(* The CrewAI integration (integrations/crewai.py): instrumented_kickoff,     *)
(* with the instrumentation enabled. A dict is a function from its keys.      *)

\* d[key] = value, and d.pop(key, None).
DictSet(d, key, value) ==
    [k \in DOMAIN d \cup {key} |-> IF k = key THEN value ELSE d[k]]

DictPop(d, key) == [k \in DOMAIN d \ {key} |-> d[k]]

\* Crew.kickoff is called: the wrapper up to the call of original_kickoff
\* (lines 58-85). The two maps are written and the start event recorded
\* before the try statement is entered.
KickoffEnter ==
    /\ Len(kickoffs) < MaxKickoffs
    /\ \E loop \in LoopModes :
        IF global_client = 0
        THEN /\ kickoffs' = Append(kickoffs,
                    [crew_id |-> 0, client |-> 0,
                     ctx |-> create_trace_context(0, 0, 0),
                     outcome |-> Running])
             /\ UNCHANGED <<clients, tasks, next_uuid, active_traces,
                            crew_start_times>>
        ELSE LET cid == global_client
                 crew_id == next_uuid
                 trace_context == create_trace_context(0, 0, next_uuid + 1)
                 r == TrackEvent(clients[cid], cid,
                                 HookEvent("agent", "start", trace_context,
                                           next_uuid + 3),
                                 now, loop)
             IN  /\ SumRecorded(clients) < MaxRecorded
                 /\ active_traces' = DictSet(active_traces, crew_id, trace_context)
                 /\ crew_start_times' = DictSet(crew_start_times, crew_id, now)
                 /\ clients' = [clients EXCEPT ![cid] = r.client]
                 /\ tasks' = tasks \o r.created
                 /\ next_uuid' = next_uuid + 4
                 /\ kickoffs' = Append(kickoffs,
                        [crew_id |-> crew_id, client |-> cid,
                         ctx |-> trace_context,
                         outcome |-> IF r.raised # None
                                     THEN [how |-> "raise", value |-> r.raised]
                                     ELSE Running])
    /\ UNCHANGED <<global_client, now, stack, invocations, last_call>>
    /\ UNCHANGED <<threadVars, ingestVars, telemetry_events>>

\* original_kickoff of a kickoff in progress returns or raises, and the
\* wrapper runs to its end (lines 85-130): the end or error event, then the
\* finally clause.
KickoffFinish ==
    /\ \E i \in 1..Len(kickoffs), func \in FuncOutcomes, result_ok \in BOOLEAN,
          loop \in LoopModes :
        LET k == kickoffs[i]
            cid == k.client
        IN  /\ k.outcome = Running
            /\ IF cid = 0
               THEN /\ kickoffs' = [kickoffs EXCEPT ![i].outcome = func]
                    /\ UNCHANGED <<clients, tasks, next_uuid, active_traces,
                                   crew_start_times>>
               ELSE LET w == WrapperFinish(clients[cid], cid, "agent", k.ctx,
                                           func, result_ok, next_uuid, now, loop)
                    IN  /\ kickoffs' = [kickoffs EXCEPT ![i].outcome = w.outcome]
                        /\ clients' = [clients EXCEPT ![cid] = w.client]
                        /\ tasks' = tasks \o w.created
                        /\ next_uuid' = next_uuid + 2
                        /\ active_traces' = DictPop(active_traces, k.crew_id)
                        /\ crew_start_times' =
                               DictPop(crew_start_times, k.crew_id)
    /\ UNCHANGED <<global_client, now, stack, invocations, last_call>>
    /\ UNCHANGED <<threadVars, ingestVars, telemetry_events>>

----------------------------------------------------------------------------
(* ReplAyClient.track_event and _flush_events, statement by statement, as     *)
(* several threads run them on the global client. The class holds no lock,    *)
(* so another thread can run between any two statements. Every thread here    *)
(* has an event loop.                                                         *)

Threads == 1..MaxThreads

IdleThread == [pc |-> "idle", calls |-> 0, events_to_send |-> <<>>]

\* line 118: self._event_buffer.append(event)
T_Append(t) ==
    /\ thr[t].pc = "idle"
    /\ thr[t].calls < CallsPerThread
    /\ LET event == [event_id |-> next_uuid, event_type |-> Dotted("agent", "start"),
                     trace_context |-> create_trace_context(0, 0, next_uuid + 1)]
       IN  clients' = [clients EXCEPT ![1].event_buffer = Append(@, event),
                                      ![1].recorded = Append(@, event)]
    /\ next_uuid' = next_uuid + 3
    /\ thr' = [thr EXCEPT ![t].pc = "check", ![t].calls = @ + 1]
    /\ UNCHANGED <<global_client, tasks, now, stack, invocations, last_call, joined>>
    /\ UNCHANGED <<ingestVars, telemetry_events>>
    /\ UNCHANGED crewVars

\* lines 124-126: the auto-flush condition, read from the shared fields
T_Check(t) ==
    /\ thr[t].pc = "check"
    /\ thr' = [thr EXCEPT ![t].pc = IF ShouldFlush(clients[1], now)
                                    THEN "flush" ELSE "idle"]
    /\ UNCHANGED <<clientVars, joined, ingestVars, telemetry_events>>
    /\ UNCHANGED crewVars

\* lines 130-131: if not self._event_buffer: return
T_FlushTest(t) ==
    /\ thr[t].pc = "flush"
    /\ thr' = [thr EXCEPT ![t].pc = IF clients[1].event_buffer = <<>>
                                    THEN "idle" ELSE "copy"]
    /\ UNCHANGED <<clientVars, joined, ingestVars, telemetry_events>>
    /\ UNCHANGED crewVars

\* line 133: events_to_send = self._event_buffer[:]
T_Copy(t) ==
    /\ thr[t].pc = "copy"
    /\ thr' = [thr EXCEPT ![t].pc = "clear",
                          ![t].events_to_send = clients[1].event_buffer]
    /\ UNCHANGED <<clientVars, joined, ingestVars, telemetry_events>>
    /\ UNCHANGED crewVars

\* line 134: self._event_buffer.clear()
T_Clear(t) ==
    /\ thr[t].pc = "clear"
    /\ clients' = [clients EXCEPT ![1].event_buffer = <<>>]
    /\ thr' = [thr EXCEPT ![t].pc = "stamp"]
    /\ UNCHANGED <<global_client, tasks, now, next_uuid, stack, invocations,
                   last_call, joined>>
    /\ UNCHANGED <<ingestVars, telemetry_events>>
    /\ UNCHANGED crewVars

\* line 135: self._last_flush = time.time()
T_Stamp(t) ==
    /\ thr[t].pc = "stamp"
    /\ clients' = [clients EXCEPT ![1].last_flush = now]
    /\ thr' = [thr EXCEPT ![t].pc = "dispatch"]
    /\ UNCHANGED <<global_client, tasks, now, next_uuid, stack, invocations,
                   last_call, joined>>
    /\ UNCHANGED <<ingestVars, telemetry_events>>
    /\ UNCHANGED crewVars

\* lines 138-143: loop.create_task(self._send_events_async(events_to_send))
T_Dispatch(t) ==
    /\ thr[t].pc = "dispatch"
    /\ tasks' = tasks \o CreateTask(1, thr[t].events_to_send, "loop").created
    /\ thr' = [thr EXCEPT ![t].pc = "idle", ![t].events_to_send = <<>>]
    /\ UNCHANGED <<clients, global_client, now, next_uuid, stack, invocations,
                   last_call, joined>>
    /\ UNCHANGED <<ingestVars, telemetry_events>>
    /\ UNCHANGED crewVars

\* After every thread has made its calls and returned: one flush().
FinalFlush ==
    /\ ~joined
    /\ \A t \in Threads : thr[t].pc = "idle" /\ thr[t].calls = CallsPerThread
    /\ LET r == FlushEvents(clients[1], 1, now, "loop")
       IN  /\ clients' = [clients EXCEPT ![1] = r.client]
           /\ tasks' = tasks \o r.created
    /\ joined' = TRUE
    /\ UNCHANGED <<global_client, now, next_uuid, stack, invocations, last_call,
                   thr>>
    /\ UNCHANGED <<ingestVars, telemetry_events>>
    /\ UNCHANGED crewVars

----------------------------------------------------------------------------
(* The ingestion endpoint (routers/events.py).                               *)

\* An entry of the events list of a request body. An entry is a JSON object
\* (is_map) or any other JSON value. Of an object the model keeps event_type
\* and trace_context; trace_context is an object with a trace_id ("map"), is
\* missing ("absent"), or is some other JSON value such as null ("other").
\* batch_id and project_id are keys the producer may have put in the entry
\* and the handler writes (project_id stands for the three request-level
\* keys project_id, session_id and environment, written by one update()).
MapEntry(event_type, ctx_kind, trace_id) ==
    [is_map |-> TRUE, event_type |-> event_type,
     trace_context |-> [kind |-> ctx_kind, trace_id |-> trace_id],
     batch_id |-> 0, project_id |-> None]

NotAMap == [is_map |-> FALSE, event_type |-> <<>>,
            trace_context |-> [kind |-> "absent", trace_id |-> None],
            batch_id |-> 0, project_id |-> None]

Entries == {[MapEntry(Dotted("agent", "start"), "map", "t1")
                EXCEPT !.project_id = "p2"],
            MapEntry(Dotted("agent", "start"), "other", None),
            NotAMap}

RECURSIVE SeqsUpTo(_, _)
SeqsUpTo(S, n) ==
    IF n = 0 THEN {<<>>}
    ELSE LET shorter == SeqsUpTo(S, n - 1)
         IN  shorter \cup {Append(q, x) : q \in {r \in shorter : Len(r) = n - 1},
                                          x \in S}

\* EventRequest: events is List[Dict[str, Any]]. FastAPI builds the model from
\* the body before it calls the handler; an entry that is no object fails the
\* validation and the request is answered 422 without the handler running.
EventRequestValid(events) == \A i \in 1..Len(events) : events[i].is_map

\* The loop of ingest_events (lines 67-89): event_data.update({...}) stamps an
\* entry and appends it; an exception (update on a value that has no such
\* method) is logged and the entry skipped.
RECURSIVE ParseEvents(_, _, _)
ParseEvents(events, batch_id, project_id) ==
    IF events = <<>> THEN <<>>
    ELSE LET event_data == Head(events)
             rest == ParseEvents(Tail(events), batch_id, project_id)
         IN  IF event_data.is_map
             THEN <<[event_data EXCEPT !.batch_id = batch_id,
                                       !.project_id = project_id]>> \o rest
             ELSE rest

IngestEventsTwice(events, batch_id, project_id) ==
    LET parsed_events == ParseEvents(events, batch_id, project_id)
        task == [events |-> parsed_events, batch_id |-> batch_id]
    IN  IF parsed_events = <<>>
        THEN [status |-> 400, events_received |-> 0, batch_id |-> batch_id,
              added |-> <<>>]
        ELSE [status |-> 200, events_received |-> Len(parsed_events),
              batch_id |-> batch_id, added |-> <<task, task>>]

\* ingest_events, the handler (lines 53-133), on a request that passed the
\* validation: the response, and the background task it has added.
IngestEvents(events, batch_id, project_id) ==
    LET parsed_events == ParseEvents(events, batch_id, project_id)
    IN  IF parsed_events = <<>>
        THEN [status |-> 400, events_received |-> 0, batch_id |-> batch_id,
              added |-> <<>>]
        ELSE [status |-> 200, events_received |-> Len(parsed_events),
              batch_id |-> batch_id,
              added |-> <<[events |-> parsed_events, batch_id |-> batch_id]>>]

\* POST /v1/events/ as the application answers it.
PostEvents(events, batch_id, project_id) ==
    IF EventRequestValid(events)
    THEN IngestEvents(events, batch_id, project_id)
    ELSE [status |-> 422, events_received |-> 0, batch_id |-> 0, added |-> <<>>]

\* One row of telemetry_events, as store_events_batch flattens an event
\* (lines 157-171). event.get("trace_context", {}).get("trace_id") needs
\* trace_context, when the key is there, to be an object.
RowOf(event, batch_id) ==
    [batch_id |-> batch_id,
     event_type |-> event.event_type,
     trace_id |-> IF event.trace_context.kind = "map"
                  THEN event.trace_context.trace_id ELSE None,
     project_id |-> event.project_id,
     raw_data |-> event]

Flattens(event) == event.trace_context.kind # "other"

\* clickhouse_client.insert_batch("telemetry_events", rows): the rows are
\* added to the table.
InsertBatch(table, rows) == table \o rows

StoreEventsBatchRetry(table, events, batch_id, insert_ok) ==
    IF \A i \in 1..Len(events) : Flattens(events[i])
    THEN InsertBatch(table, [i \in 1..Len(events) |-> RowOf(events[i], batch_id)])
    ELSE table

\* store_events_batch (lines 136-222): build every row, then one insert_batch;
\* any exception on the way (a row that cannot be built, a failing insert) is
\* logged and the function returns.
StoreEventsBatch(table, events, batch_id, insert_ok) ==
    IF \A i \in 1..Len(events) : Flattens(events[i])
    THEN LET rows == [i \in 1..Len(events) |-> RowOf(events[i], batch_id)]
         IN  IF insert_ok THEN InsertBatch(table, rows) ELSE table
    ELSE table

\* How a call of store_events_batch ends: "except Exception" (lines 212-222)
\* catches the failure of a row and of the insert, logs it and falls off the
\* end of the function; nothing is raised to the caller of the task.
StoreOutcome(events, batch_id, insert_ok) ==
    [batch_id |-> batch_id,
     outcome |-> IF \E i \in 1..Len(events) : ~Flattens(events[i])
                 THEN "row_error"
                 ELSE IF insert_ok THEN "stored" ELSE "insert_error",
     raised |-> None]

Projects == {"p1"}

\* The events lists of the requests, the empty list among them.
Requests == SeqsUpTo(Entries, MaxBatchEvents)

\* A producer posts a batch.
Post ==
    /\ Len(responses) < MaxRequests
    /\ \E events \in Requests, project_id \in Projects :
        LET r == PostEvents(events, next_batch, project_id)
        IN  /\ responses' = Append(responses,
                                   [events |-> events, status |-> r.status,
                                    events_received |-> r.events_received,
                                    batch_id |-> r.batch_id,
                                    scheduled |-> r.added])
            /\ background_tasks' = background_tasks \o r.added
    /\ next_batch' = next_batch + 1
    /\ UNCHANGED <<clientVars, threadVars, telemetry_events, storage_log>>
    /\ UNCHANGED crewVars

\* A background task runs: store_events_batch on its batch.
RunBackgroundTask ==
    /\ background_tasks # <<>>
    /\ \E insert_ok \in BOOLEAN :
        LET task == Head(background_tasks)
        IN  /\ telemetry_events' =
                   StoreEventsBatch(telemetry_events, task.events,
                                    task.batch_id, insert_ok)
            /\ storage_log' =
                   Append(storage_log,
                          StoreOutcome(task.events, task.batch_id, insert_ok))
    /\ background_tasks' = Tail(background_tasks)
    /\ UNCHANGED <<clientVars, threadVars, responses, next_batch>>
    /\ UNCHANGED crewVars

\* The names get_batch_status can read: its parameters, and the names of the
\* module. The query is sent through the name clickhouse_client, which is a
\* parameter of store_events_batch only.
BatchStatusNames == {"batch_id", "api_key", "clickhouse", "logger", "router",
                     "HTTPException", "get_clickhouse_client", "get_api_key"}

\* The query of get_batch_status (lines 236-246): an aggregate without GROUP
\* BY answers one row, also when no row has the batch_id.
BatchInfo(table, batch_id) ==
    <<[events_count |->
          Cardinality({i \in 1..Len(table) : table[i].batch_id = batch_id})]>>

\* get_batch_status (lines 225-282). Reading a name that is not bound raises
\* NameError inside the try; "except Exception" turns it into 500.
GetBatchStatus(table, batch_id) ==
    IF "clickhouse_client" \notin BatchStatusNames
    THEN [code |-> 500, detail |-> "Failed to retrieve batch status"]
    ELSE LET result == BatchInfo(table, batch_id)
         IN  IF result = <<>>
             THEN [code |-> 404, detail |-> "Batch not found"]
             ELSE [code |-> 200, batch_id |-> batch_id,
                   status |-> IF result[1].events_count > 0
                              THEN "processed" ELSE "not_found",
                   events_count |-> result[1].events_count]

----------------------------------------------------------------------------
(* The trace queries (routers/traces.py) over telemetry_events.              *)

\* event_type LIKE '%<suffix>' : the value ends with the suffix. A NULL
\* event_type (no pieces) matches nothing.
Like(event_type, suffix) ==
    /\ Len(event_type) >= Len(suffix)
    /\ SubSeq(event_type, Len(event_type) - Len(suffix) + 1, Len(event_type))
           = suffix

\* countIf(event_type LIKE '%<suffix>') over the rows of a group.
RECURSIVE countIf(_, _)
countIf(rows, suffix) ==
    IF rows = <<>> THEN 0
    ELSE (IF Like(Head(rows).event_type, suffix) THEN 1 ELSE 0)
         + countIf(Tail(rows), suffix)

\* The CASE of both queries.
StatusCaseAtLeast(rows) ==
    IF countIf(rows, <<".", "error">>) > 0 THEN "failed"
    ELSE IF countIf(rows, <<".", "start">>) >= countIf(rows, <<".", "end">>)
         THEN "running"
         ELSE "completed"

StatusCaseRunningFirst(rows) ==
    IF countIf(rows, <<".", "start">>) > countIf(rows, <<".", "end">>)
    THEN "running"
    ELSE IF countIf(rows, <<".", "error">>) > 0 THEN "failed"
         ELSE "completed"

StatusCase(rows) ==
    IF countIf(rows, <<".", "error">>) > 0 THEN "failed"
    ELSE IF countIf(rows, <<".", "start">>) > countIf(rows, <<".", "end">>)
         THEN "running"
         ELSE "completed"

\* class TraceStatus.
TraceStatus == {"completed", "failed", "running", "cancelled"}

\* status_value of the handlers: a value outside TraceStatus becomes
\* "completed".
StatusValue(status) == IF status \in TraceStatus THEN status ELSE "completed"

\* WHERE trace_id = ... alone.
TraceRowsOfAnyProject(table, project_id, trace_id) ==
    SelectSeq(table, LAMBDA row : row.trace_id = trace_id)

\* WHERE project_id = ... AND trace_id = ... of get_trace_detail.
TraceRows(table, project_id, trace_id) ==
    SelectSeq(table, LAMBDA row : row.project_id = project_id
                                  /\ row.trace_id = trace_id)

\* get_trace_detail: 404 when the summary query returns no group.
GetTraceDetail(table, project_id, trace_id) ==
    LET rows == TraceRows(table, project_id, trace_id)
    IN  IF rows = <<>>
        THEN [code |-> 404, id |-> trace_id, status |-> None]
        ELSE [code |-> 200, id |-> trace_id,
              status |-> StatusValue(StatusCase(rows))]

\* get_recent_traces without an environment filter: one item per trace_id of
\* the project (GROUP BY trace_id), here as a set of items.
GetRecentTraces(table, project_id) ==
    LET ids == {table[i].trace_id : i \in {j \in 1..Len(table) :
                                            table[j].project_id = project_id}}
    IN  {[id |-> trace_id,
          status |-> StatusValue(StatusCase(TraceRows(table, project_id, trace_id)))]
         : trace_id \in ids}

\* The rows other batches bring into the table in SpecQuery.
QueryTypes == {Dotted("agent", "start"), Dotted("agent", "end"),
               Dotted("tool", "start"), Dotted("tool", "end"),
               Dotted("tool", "error"), Dotted("error", "start")}

Row(event_type, trace_id) ==
    [batch_id |-> 0, event_type |-> event_type, trace_id |-> trace_id,
     project_id |-> "p1"]

QueryRows == {Row(ty, "t1") : ty \in QueryTypes}
             \cup {Row(Dotted("agent", "start"), "t2"),
                   Row(Dotted("llm", "error"), "t2")}

Traces == {"t1", "t2"}

\* The batches of SpecQuery: one row, or two.
QueryBatches == {<<a>> : a \in QueryRows} \cup {<<a, b>> : a, b \in QueryRows}

\* A stored batch arrives in the table.
Insert ==
    /\ \E rows \in QueryBatches :
        /\ Len(telemetry_events) + Len(rows) <= MaxRows
        /\ telemetry_events' = InsertBatch(telemetry_events, rows)
    /\ UNCHANGED <<clientVars, threadVars, ingestVars>>
    /\ UNCHANGED crewVars

----------------------------------------------------------------------------
(* The aggregates of the trace queries and the cost breakdown                *)
(* (routers/traces.py). A timestamp is a number of clock ticks, a cost_usd   *)
(* a number of thousandths of a dollar, and a column without a value holds   *)
(* NULL (a number column) or None (a string column).                         *)

NULL == -1

\* min(timestamp), max(timestamp) over the rows of a group, taken row by row
\* in the order the rows are stored.
firstTimestamp(rows) == rows[1].timestamp

RECURSIVE minTimestamp(_)
minTimestamp(rows) ==
    IF Len(rows) = 1 THEN rows[1].timestamp
    ELSE LET m == minTimestamp(Tail(rows))
         IN  IF rows[1].timestamp < m THEN rows[1].timestamp ELSE m

RECURSIVE maxTimestamp(_)
maxTimestamp(rows) ==
    IF Len(rows) = 1 THEN rows[1].timestamp
    ELSE LET m == maxTimestamp(Tail(rows))
         IN  IF rows[1].timestamp > m THEN rows[1].timestamp ELSE m

\* sum(column): NULL values are skipped; the sum of no value is NULL.
RECURSIVE sum(_, _)
sum(rows, column) ==
    IF rows = <<>> THEN NULL
    ELSE LET rest == sum(Tail(rows), column)
             v == rows[1][column]
         IN  IF v = NULL THEN rest
             ELSE IF rest = NULL THEN v ELSE v + rest

\* count(): the number of rows.
count(rows, column) == Len(rows)

\* uniq(column): the number of distinct values that are not NULL.
uniq(rows, column) ==
    Cardinality({rows[i][column] : i \in 1..Len(rows)} \ {None})

\* "x or 0" of the handlers.
OrZero(x) == IF x = NULL THEN 0 ELSE x

\* The quotient a / b (b > 0) cut to an integer.
PercentFloor(a, b) == a \div b

\* The quotient a / b (b > 0) rounded to the nearest integer, a tie going to
\* the even one, as round() does.
RoundHalfEven(a, b) ==
    LET q == a \div b
        r == a % b
    IN  IF 2 * r < b THEN q
        ELSE IF 2 * r > b THEN q + 1
        ELSE IF q % 2 = 0 THEN q ELSE q + 1

\* The row of summary_query (get_trace_detail) and of the query of
\* get_recent_traces for one trace_id, as the handler returns it; total_cost
\* is round(total_cost or 0, 2), in cents.
SummaryOf(rows) ==
    LET start_time == minTimestamp(rows)
        end_time == maxTimestamp(rows)
    IN
    [start_time |-> start_time,
     end_time |-> end_time,
     duration |-> end_time - start_time,
     status |-> StatusValue(StatusCase(rows)),
     total_cost |-> RoundHalfEven(OrZero(sum(rows, "cost_usd")), 10),
     total_tokens |-> OrZero(sum(rows, "tokens_used")),
     agents_count |-> uniq(rows, "agent_id"),
     tasks_count |-> uniq(rows, "task_id")]

\* get_trace_detail: 404 without rows, else the summary.
TraceSummary(table, project_id, trace_id) ==
    LET rows == TraceRows(table, project_id, trace_id)
    IN  IF rows = <<>> THEN [code |-> 404]
        ELSE [code |-> 200, id |-> trace_id, summary |-> SummaryOf(rows)]

\* An item of get_recent_traces with its duration taken from the epoch.
ListItemUntilEnd(rows) ==
    [start_time |-> minTimestamp(rows),
     duration |-> maxTimestamp(rows),
     status |-> StatusValue(StatusCase(rows)),
     agents |-> uniq(rows, "agent_id"),
     tasks |-> uniq(rows, "task_id"),
     tokens |-> OrZero(sum(rows, "tokens_used")),
     cost |-> RoundHalfEven(OrZero(sum(rows, "cost_usd")), 10)]

\* The row of the query of get_recent_traces for one trace_id (lines
\* 350-363) as the handler returns it (lines 380-391), without name and
\* environment; cost is round(total_cost or 0, 2), in cents.
ListItemOf(rows) ==
    [start_time |-> minTimestamp(rows),
     duration |-> maxTimestamp(rows) - minTimestamp(rows),
     status |-> StatusValue(StatusCase(rows)),
     agents |-> uniq(rows, "agent_id"),
     tasks |-> uniq(rows, "task_id"),
     tokens |-> OrZero(sum(rows, "tokens_used")),
     cost |-> RoundHalfEven(OrZero(sum(rows, "cost_usd")), 10)]

\* get_recent_traces without environment filter: the items, one for each
\* trace_id of the project.
RecentSummaries(table, project_id) ==
    LET ids == {table[i].trace_id : i \in {j \in 1..Len(table) :
                                            table[j].project_id = project_id}}
    IN  [trace_id \in ids |->
            ListItemOf(TraceRows(table, project_id, trace_id))]

\* The WHERE clause of get_recent_traces (lines 339-346): the project, and
\* the environment when one is given.
RecentRows(table, project_id, environment) ==
    SelectSeq(table, LAMBDA row :
        /\ row.project_id = project_id
        /\ environment # None => row.environment = environment)

\* LIMIT limit OFFSET offset of a result.
LimitFromStart(result, limit, offset) ==
    SubSeq(result, 1, IF limit < Len(result) THEN limit ELSE Len(result))

LimitOffset(result, limit, offset) ==
    SubSeq(result, offset + 1,
           IF offset + limit < Len(result) THEN offset + limit ELSE Len(result))

\* get_recent_traces: every page the handler can answer. GROUP BY trace_id
\* over the rows of the WHERE clause, ORDER BY start_time DESC (groups of one
\* start_time come in any order), LIMIT and OFFSET.
RecentPages(table, project_id, environment, limit, offset) ==
    LET scope == RecentRows(table, project_id, environment)
        ids == {scope[i].trace_id : i \in 1..Len(scope)}
        n == Cardinality(ids)
        group(id) == SelectSeq(scope, LAMBDA row : row.trace_id = id)
        start(id) == minTimestamp(group(id))
        results == {q \in [1..n -> ids] :
                      /\ \A i, j \in 1..n : i # j => q[i] # q[j]
                      /\ \A i, j \in 1..n : i < j => start(q[i]) >= start(q[j])}
    IN  {LET page == LimitOffset(q, limit, offset)
         IN  [i \in 1..Len(page) |->
                 [id |-> page[i], item |-> ListItemOf(group(page[i]))]]
         : q \in results}

\* any(column): the first value met that is not NULL. In which order a query
\* meets the rows of a group is not defined and can differ from one query to
\* the next, so any() can answer every value the group holds (NULL when it
\* holds none).
anyValues(rows, column) ==
    LET values == {rows[i][column] : i \in 1..Len(rows)} \ {None}
    IN  IF values = {} THEN {None} ELSE values

\* name and environment of an answer: the value of any(), or the fallback.
NameOr(session_name, trace_id) ==
    IF session_name = None THEN "Trace " \o trace_id ELSE session_name

EnvironmentOr(environment) ==
    IF environment = None THEN "unknown" ELSE environment

\* timeline_query: the rows of the trace ORDER BY timestamp ASC; rows of one
\* timestamp come in any order.
Timelines(rows) ==
    LET n == Len(rows)
        orders == {f \in [1..n -> 1..n] :
                     /\ \A i, j \in 1..n : i # j => f[i] # f[j]
                     /\ \A i, j \in 1..n :
                            i < j => rows[f[i]].timestamp <= rows[f[j]].timestamp}
    IN  {[i \in 1..n |-> rows[f[i]]] : f \in orders}

\* An item of the timeline, and the LLM calls taken from the timeline rows.
TimelineItem(event) ==
    [timestamp |-> event.timestamp, type |-> event.event_type,
     agent_id |-> event.agent_id, task_id |-> event.task_id]

IsLLMCall(event) ==
    /\ event.event_type \in {Dotted("llm", "start"), Dotted("llm", "end")}
    /\ event.model_name # None

LLMCall(event) ==
    [timestamp |-> event.timestamp,
     agent_id |-> IF event.agent_id = None THEN "unknown" ELSE event.agent_id,
     model_name |-> event.model_name,
     completion_tokens |-> OrZero(event.tokens_used),
     cost |-> OrZero(event.cost_usd)]

LLMCalls(timeline_result) ==
    LET calls == SelectSeq(timeline_result, IsLLMCall)
    IN  [i \in 1..Len(calls) |-> LLMCall(calls[i])]

\* get_trace_detail: every answer the handler can give over the table: 404
\* without rows of the project and trace, else the TraceDetail.
TraceDetails(table, project_id, trace_id) ==
    LET rows == TraceRows(table, project_id, trace_id)
    IN  IF rows = <<>> THEN {[code |-> 404, detail |-> "Trace not found"]}
        ELSE {[code |-> 200, id |-> trace_id,
               name |-> NameOr(session_name, trace_id),
               environment |-> EnvironmentOr(environment),
               summary |-> SummaryOf(rows),
               timeline |-> [i \in 1..Len(timeline_result) |->
                                TimelineItem(timeline_result[i])],
               llm_calls |-> LLMCalls(timeline_result)] :
              session_name \in anyValues(rows, "session_id"),
              environment \in anyValues(rows, "environment"),
              timeline_result \in Timelines(rows)}

\* get_cost_breakdown: the rows of the project in the time range with
\* cost_usd > 0, grouped by model_name. The result maps each group to its
\* item: the label coalesce(model_name, 'Unknown'), the cost round(cost, 2)
\* in cents, and the percentage round((cost / total) * 100, 1) in tenths of a
\* percent.
CostRows(table, project_id, start_time, end_time) ==
    SelectSeq(table, LAMBDA r : /\ r.project_id = project_id
                                /\ r.timestamp >= start_time
                                /\ r.timestamp <= end_time
                                /\ r.cost_usd > 0)

GetCostBreakdown(table, project_id, start_time, end_time) ==
    LET scope == CostRows(table, project_id, start_time, end_time)
        groups == {scope[i].model_name : i \in 1..Len(scope)}
        cost(g) == sum(SelectSeq(scope, LAMBDA r : r.model_name = g), "cost_usd")
        total == sum(scope, "cost_usd")
    IN  [g \in groups |->
            [model_name |-> IF g = None THEN "Unknown" ELSE g,
             cost |-> RoundHalfEven(cost(g), 10),
             percentage |-> RoundHalfEven(cost(g) * 1000, total)]]

\* The rows that arrive in SpecSummary: three traces, timestamps in no order,
\* rows with and without tokens, cost, agent, task and model, rows of one
\* trace stamped with different session_id and environment values (each
\* request stamps its own), and rows of trace t1 under another project.
SummaryRow(event_type, trace_id, timestamp, tokens_used, cost_usd, agent_id, task_id, model_name, session_id, environment) ==
    [batch_id |-> 0, event_type |-> event_type, trace_id |-> trace_id,
     project_id |-> "p1", timestamp |-> timestamp, tokens_used |-> tokens_used,
     cost_usd |-> cost_usd, agent_id |-> agent_id, task_id |-> task_id,
     model_name |-> model_name, session_id |-> session_id,
     environment |-> environment]

SummaryRows ==
    {SummaryRow(Dotted("agent", "start"), "t1", 2, NULL, NULL, "a1", None, None, "s1", "production"),
     SummaryRow(Dotted("llm", "end"), "t1", 1, 5, 4, "a1", "k1", "gpt-4", "s1", "production"),
     SummaryRow(Dotted("llm", "end"), "t1", 3, 7, 4, "a2", None, None, "s2", "staging"),
     SummaryRow(Dotted("tool", "error"), "t1", 2, NULL, NULL, None, "k1", None, "s2", "production"),
     SummaryRow(Dotted("llm", "end"), "t2", 1, 3, 60, "a1", "k2", "claude", "s1", "production"),
     SummaryRow(Dotted("llm", "end"), "t2", 2, 2, 4, "a3", None, "gemini", "s1", "production"),
     SummaryRow(Dotted("agent", "end"), "t2", 3, NULL, 0, None, None, "gpt-4", "s1", "staging"),
     SummaryRow(Dotted("agent", "start"), "t3", 2, NULL, NULL, None, None, None, "s3", "staging"),
     [SummaryRow(Dotted("llm", "end"), "t1", 0, 9, 8, "a9", "k9", "gpt-4", "s9", "staging")
         EXCEPT !.project_id = "p2"],
     [SummaryRow(Dotted("agent", "error"), "t1", 2, NULL, NULL, "a9", None, None, "s9", "staging")
         EXCEPT !.project_id = "p2"]}

\* A stored row arrives in the table.
InsertRow ==
    /\ Len(telemetry_events) < MaxSummaryRows
    /\ \E row \in SummaryRows :
           telemetry_events' = InsertBatch(telemetry_events, <<row>>)
    /\ UNCHANGED <<clientVars, threadVars, ingestVars>>
    /\ UNCHANGED crewVars

----------------------------------------------------------------------------

Init ==
    /\ clients = <<>>
    /\ global_client = 0
    /\ tasks = <<>>
    /\ now = 0
    /\ next_uuid = 1
    /\ stack = <<>>
    /\ invocations = <<>>
    /\ last_call = NoCall
    /\ thr = <<>>
    /\ joined = FALSE
    /\ responses = <<>>
    /\ background_tasks = <<>>
    /\ storage_log = <<>>
    /\ telemetry_events = <<>>
    /\ next_batch = 1
    /\ active_traces = <<>>
    /\ crew_start_times = <<>>
    /\ kickoffs = <<>>

\* One caller using the client through the module-level interface.
Next ==
    \/ Initialize
    \/ Tick
    \/ TrackEventCall
    \/ FlushCall
    \/ CloseCall

Spec == Init /\ [][Next]_vars

\* One caller using the client while the event loop runs the tasks between
\* the calls, within one tick of the clock.
NextSend ==
    \/ Initialize
    \/ TrackEventCall
    \/ FlushCall
    \/ CloseCall
    \/ RunTask

SpecSend == Init /\ [][NextSend]_vars

\* One caller running decorated functions, nested or in sequence, within one
\* tick of the clock.
NextHooks ==
    \/ Initialize
    \/ HookEnter
    \/ FuncFinish

SpecHooks == Init /\ [][NextHooks]_vars

\* The calls a program makes before it calls initialize(): events recorded by
\* hand and decorated functions called, which may still be running when
\* initialize() is called and end after it.
NextBefore ==
    \/ (global_client = 0 /\ TrackEventCall)
    \/ (global_client = 0 /\ HookEnter)
    \/ FuncFinish
    \/ Initialize

SpecBefore == Init /\ [][NextBefore]_vars

\* Several threads recording on one client that initialize() has built.
InitThreads ==
    /\ \E bs \in 1..MaxBatchSize : clients = <<NewClient(bs, Interval, 0)>>
    /\ global_client = 1
    /\ tasks = <<>>
    /\ now = 0
    /\ next_uuid = 1
    /\ stack = <<>>
    /\ invocations = <<>>
    /\ last_call = NoCall
    /\ thr = [t \in Threads |-> IdleThread]
    /\ joined = FALSE
    /\ responses = <<>>
    /\ background_tasks = <<>>
    /\ storage_log = <<>>
    /\ telemetry_events = <<>>
    /\ next_batch = 1
    /\ active_traces = <<>>
    /\ crew_start_times = <<>>
    /\ kickoffs = <<>>

NextThreads ==
    \/ \E t \in Threads :
           \/ T_Append(t)
           \/ T_Check(t)
           \/ T_FlushTest(t)
           \/ T_Copy(t)
           \/ T_Clear(t)
           \/ T_Stamp(t)
           \/ T_Dispatch(t)
    \/ FinalFlush

SpecThreads == InitThreads /\ [][NextThreads]_vars

\* Producers posting batches and the background tasks storing them.
NextIngest ==
    \/ Post
    \/ RunBackgroundTask

SpecIngest == Init /\ [][NextIngest]_vars

\* The table growing by batches, read by the trace queries.
NextQuery == Insert

SpecQuery == Init /\ [][NextQuery]_vars

\* The table growing row by row, read by the queries' aggregates.
NextSummary == InsertRow

SpecSummary == Init /\ [][NextSummary]_vars

\* One program that replaces the global client and goes on using the
\* module-level interface and the decorators; it calls flush() and a
\* decorated function after it has replaced a client.
NextGlobal ==
    \/ InitializeUpTo(MaxInitialize)
    \/ TrackEventCall
    \/ (Len(clients) > 1 /\ FlushCall)
    \/ (Len(clients) > 1 /\ invocations = <<>> /\ HookEnter)
    \/ FuncFinish

SpecGlobal == Init /\ [][NextGlobal]_vars

\* One program calling initialize() and kicking off crews.
NextCrew ==
    \/ Initialize
    \/ KickoffEnter
    \/ KickoffFinish

SpecCrew == Init /\ [][NextCrew]_vars

----------------------------------------------------------------------------
(* Derived values used by the properties. *)

RECURSIVE Concat(_)
Concat(ss) == IF ss = <<>> THEN <<>> ELSE Head(ss) \o Concat(Tail(ss))

\* The batches handed to a transmission task for client cid, oldest first.
TasksOf(cid) == SelectSeq(tasks, LAMBDA k : k.client = cid)
Batches(cid) == [i \in 1..Len(TasksOf(cid)) |-> TasksOf(cid)[i].events]

\* The event types recorded on the invocation's client under its span, in
\* recording order, and whether they all carry the invocation's trace_id.
SpanEvents(inv) ==
    SelectSeq(clients[inv.client].recorded,
              LAMBDA e : e.trace_context.span_id = inv.ctx.span_id)
SpanTypes(inv) ==
    [i \in 1..Len(SpanEvents(inv)) |-> SpanEvents(inv)[i].event_type]
SameContext(inv) ==
    \A i \in 1..Len(SpanEvents(inv)) : SpanEvents(inv)[i].trace_context = inv.ctx

Finished(inv) == inv.outcome.how # "running"

\* How often event e occurs in the sequence s.
Count(e, s) == Cardinality({i \in 1..Len(s) : s[i] = e})

----------------------------------------------------------------------------
(* Properties of concurrent recording, under SpecThreads. *)

\* C1: once every thread's track_event calls have returned and the final
\* flush() has run, every recorded event is in exactly one batch handed to a
\* transmission task: none is lost, none is sent twice.
C1_EveryEventInExactlyOneBatch ==
    joined =>
        \A i \in 1..Len(clients[1].recorded) :
            Count(clients[1].recorded[i], Concat(Batches(1))) = 1

----------------------------------------------------------------------------
(* Properties of the trace queries, under SpecQuery. *)

\* The rows of trace tr whose event_type ends in "." and phase, counted from
\* the table.
EndsIn(event_type, phase) ==
    /\ Len(event_type) >= 2
    /\ event_type[Len(event_type)] = phase
    /\ event_type[Len(event_type) - 1] = "."
InTrace(tr) ==
    {i \in 1..Len(telemetry_events) :
        telemetry_events[i].trace_id = tr /\ telemetry_events[i].project_id = "p1"}
NumPhase(tr, phase) ==
    Cardinality({i \in InTrace(tr) : EndsIn(telemetry_events[i].event_type, phase)})
NumType(tr, ty) ==
    Cardinality({i \in InTrace(tr) : telemetry_events[i].event_type = ty})

\* The status the rule gives trace tr.
RuleStatus(tr) ==
    IF NumPhase(tr, "error") >= 1 THEN "failed"
    ELSE IF NumPhase(tr, "start") > NumPhase(tr, "end") THEN "running"
         ELSE "completed"

\* Trace tr holds exactly the events {agent.start, tool.start, tool.end} and
\* ends agent.end events, errors tool.error events.
HoldsExample(tr, ends, errors) ==
    /\ NumType(tr, Dotted("agent", "start")) = 1
    /\ NumType(tr, Dotted("tool", "start")) = 1
    /\ NumType(tr, Dotted("tool", "end")) = 1
    /\ NumType(tr, Dotted("agent", "end")) = ends
    /\ NumType(tr, Dotted("tool", "error")) = errors
    /\ Cardinality(InTrace(tr)) = 3 + ends + errors

DetailStatus(table, tr) == GetTraceDetail(table, "p1", tr).status
ListStatus(table, tr) ==
    {item.status : item \in {x \in GetRecentTraces(table, "p1") : x.id = tr}}

\* C2: for every trace with events, the trace detail and the recent-traces
\* item both give 'failed' if some event type ends in '.error', otherwise
\* 'running' if there are more '.start' than '.end' events, otherwise
\* 'completed'; {agent.start, tool.start, tool.end, agent.end} is completed,
\* without agent.end it is running, with a *.error added it is failed.
C2_StatusDerivation ==
    \A tr \in Traces :
        InTrace(tr) # {} =>
            /\ GetTraceDetail(telemetry_events, "p1", tr).code = 200
            /\ DetailStatus(telemetry_events, tr) = RuleStatus(tr)
            /\ ListStatus(telemetry_events, tr) = {RuleStatus(tr)}
            /\ HoldsExample(tr, 1, 0) => DetailStatus(telemetry_events, tr) = "completed"
            /\ HoldsExample(tr, 0, 0) => DetailStatus(telemetry_events, tr) = "running"
            /\ HoldsExample(tr, 1, 1) => DetailStatus(telemetry_events, tr) = "failed"
            /\ HoldsExample(tr, 0, 1) => DetailStatus(telemetry_events, tr) = "failed"

\* The example trace with its *.error event, beside another trace.
C2_Witness ==
    /\ HoldsExample("t1", 1, 1)
    /\ DetailStatus(telemetry_events, "t1") = "failed"

\* C3: as the table grows, a trace whose status is 'failed' keeps the status
\* 'failed', in the detail and in the list.
C3_FailedIsSticky ==
    [][\A tr \in Traces :
          /\ DetailStatus(telemetry_events, tr) = "failed"
                 => DetailStatus(telemetry_events', tr) = "failed"
          /\ ListStatus(telemetry_events, tr) = {"failed"}
                 => ListStatus(telemetry_events', tr) = {"failed"}]_vars

\* A *.end event that arrived after a *.error event of the same trace, and
\* as many *.end as *.start events: the trace is failed, not completed.
C3_Witness ==
    /\ \E i, j \in InTrace("t1") :
          /\ i < j
          /\ EndsIn(telemetry_events[i].event_type, "error")
          /\ EndsIn(telemetry_events[j].event_type, "end")
    /\ NumPhase("t1", "start") = NumPhase("t1", "end")
    /\ DetailStatus(telemetry_events, "t1") = "failed"

----------------------------------------------------------------------------
(* Properties of the ingestion endpoint, under SpecIngest. *)

\* The entries of a request that are structurally valid (JSON objects).
NumValid(events) == Cardinality({i \in 1..Len(events) : events[i].is_map})
StoredRows(batch_id) ==
    Cardinality({i \in 1..Len(telemetry_events) :
                    telemetry_events[i].batch_id = batch_id})
Scheduled(batch_id) ==
    \E i \in 1..Len(background_tasks) : background_tasks[i].batch_id = batch_id

\* C4: a request with N entries of which M are valid, 0 < M < N, is answered
\* 200 with events_received = M, and no more than M rows are stored for it.
C4_PartialBatchAccepted ==
    \A k \in 1..Len(responses) :
        LET r == responses[k]
            M == NumValid(r.events)
        IN  (0 < M /\ M < Len(r.events)) =>
                /\ r.status = 200
                /\ r.events_received = M
                /\ StoredRows(r.batch_id) <= M

\* C5: a request with no valid entry, the empty list included, is answered
\* 400; no storage task is scheduled for it and no row is stored for it.
C5_EmptyBatchRejected ==
    \A k \in 1..Len(responses) :
        LET r == responses[k]
        IN  NumValid(r.events) = 0 =>
                /\ r.status = 400
                /\ ~Scheduled(r.batch_id)
                /\ StoredRows(r.batch_id) = 0

----------------------------------------------------------------------------
(* Properties of the decorators, under SpecHooks. *)

\* C6: every finished wrapper call made with a client has recorded exactly
\* <<*.start, *.end>> when the wrapped function returned and exactly
\* <<*.start, *.error>> when it raised, all under one trace_context.
C6_StartThenOneTerminal ==
    \A i \in 1..Len(invocations) :
        LET inv == invocations[i]
        IN  (inv.client # 0 /\ Finished(inv)) =>
                /\ SameContext(inv)
                /\ inv.func.how = "return" =>
                       SpanTypes(inv) = <<Dotted(inv.kind, "start"),
                                          Dotted(inv.kind, "end")>>
                /\ inv.func.how = "raise" =>
                       SpanTypes(inv) = <<Dotted(inv.kind, "start"),
                                          Dotted(inv.kind, "error")>>
                /\ inv.func.how # "running"

\* C7: every finished wrapper call has called the wrapped function exactly
\* once and ends as the function ended: same return value, same exception.
C7_PurelyObservational ==
    \A i \in 1..Len(invocations) :
        LET inv == invocations[i]
        IN  Finished(inv) => (inv.func_calls = 1 /\ inv.outcome = inv.func)

----------------------------------------------------------------------------
(* Properties of the buffering client, under Spec. *)

\* C8: flush() or close() on an empty buffer raises nothing, creates no task,
\* and leaves the buffer and the last-flush time as they were.
C8_EmptyFlushIsNoOp ==
    (last_call.op \in {"flush", "close"} /\ last_call.buffer_before = <<>>) =>
        /\ last_call.raised = None
        /\ Len(tasks) = last_call.tasks_before
        /\ clients[last_call.client].event_buffer = <<>>
        /\ clients[last_call.client].last_flush = last_call.last_flush_before

C8_Witness ==
    /\ last_call.op = "flush"
    /\ last_call.buffer_before = <<>>
    /\ last_call.tasks_before > 0
    /\ now > last_call.last_flush_before

\* C9: a track_event call has flushed (the buffer is empty when it ends, and a
\* task was created unless creating it raised) exactly when, after the append,
\* the buffer length was >= batch_size or the time since the last flush was
\* >= flush_interval_seconds; otherwise the event was only appended. Either
\* way the buffer then holds fewer than batch_size events.
C9_FlushExactlyOnTrigger ==
    (last_call.op = "track_event" /\ last_call.client # 0) =>
        LET c == clients[last_call.client]
            due == \/ last_call.len_after >= c.batch_size
                   \/ last_call.elapsed >= c.flush_interval_seconds
        IN  /\ due <=> (c.event_buffer = <<>>)
            /\ (due /\ last_call.raised = None) =>
                   /\ Len(tasks) = last_call.tasks_before + 1
                   /\ Len(tasks[Len(tasks)].events) = last_call.len_after
            /\ ~due =>
                   /\ last_call.raised = None
                   /\ Len(tasks) = last_call.tasks_before
                   /\ Len(c.event_buffer) = last_call.len_after
            /\ Len(c.event_buffer) < c.batch_size

\* A flush triggered by the elapsed time alone, below batch_size.
C9_Witness ==
    /\ last_call.op = "track_event"
    /\ last_call.client # 0
    /\ last_call.len_after < clients[last_call.client].batch_size
    /\ last_call.elapsed >= clients[last_call.client].flush_interval_seconds
    /\ clients[last_call.client].event_buffer = <<>>
    /\ last_call.raised = None

\* C10: a flush of a non-empty buffer hands the buffer's contents, in order, to
\* one new task and leaves the buffer empty; and for every client the batches
\* handed to tasks, concatenated, followed by the buffer, are the recorded
\* events.
C10_BatchesPartitionRecorded ==
    /\ (last_call.op \in {"flush", "close"} /\ last_call.buffer_before # <<>>) =>
           /\ Len(tasks) = last_call.tasks_before + 1
           /\ tasks[Len(tasks)].events = last_call.buffer_before
           /\ clients[last_call.client].event_buffer = <<>>
    /\ \A cid \in 1..Len(clients) :
           Concat(Batches(cid)) \o clients[cid].event_buffer
               = clients[cid].recorded

----------------------------------------------------------------------------
(* Properties of the transmission, under SpecSend. *)

\* The events of every batch handed to a task, oldest task first.
AllBatchEvents == Concat([i \in 1..Len(tasks) |-> tasks[i].events])

FailedTask(i) == tasks[i].state = "done" /\ tasks[i].result # "200"

\* A task makes at most one POST, and the events of a task whose POST failed
\* are in no buffer and in no other task.
AtMostOnce ==
    \A i \in 1..Len(tasks) :
        /\ tasks[i].posts <= 1
        /\ tasks[i].state = "pending" => tasks[i].posts = 0
        /\ FailedTask(i) =>
               \A k \in 1..Len(tasks[i].events) :
                   /\ Count(tasks[i].events[k],
                            clients[tasks[i].client].event_buffer) = 0
                   /\ Count(tasks[i].events[k], AllBatchEvents) = 1

\* C11: a dispatched batch is transmitted at most once: a task that has run
\* never runs again, and when its POST raised or returned a status other than
\* 200 its events are not put back into the buffer and are in no later batch.
C11_FailedBatchIsDropped ==
    [][/\ AtMostOnce'
       /\ \A i \in 1..Len(tasks) :
              tasks[i].state = "done" =>
                  (Len(tasks') >= i /\ tasks'[i] = tasks[i])]_vars

\* A batch whose POST failed, and a later batch that has been sent.
C11_Witness ==
    \E i, j \in 1..Len(tasks) :
        /\ i < j
        /\ FailedTask(i)
        /\ tasks[j].state = "done"
        /\ tasks[j].result = "200"

\* C12: track_event() and flush() never raise.
C12_ClientNeverRaises ==
    last_call.op \in {"track_event", "flush"} => last_call.raised = None

\* C13: a call of the client runs no transmission: it leaves every existing
\* task as it was and any task it creates pending, with no POST made; only
\* the loop, outside the calls, runs tasks. close() is the only call that
\* sleeps.
C13_CallsNeverWaitForNetwork ==
    [][/\ \/ (clients' = clients /\ last_call' = last_call)
          \/ /\ Len(tasks') >= Len(tasks)
             /\ SubSeq(tasks', 1, Len(tasks)) = tasks
             /\ \A i \in (Len(tasks) + 1)..Len(tasks') :
                    tasks'[i].state = "pending" /\ tasks'[i].posts = 0
       /\ last_call'.slept => last_call'.op = "close"]_vars

\* A call that created a task and returned with the task pending, after an
\* earlier transmission ended in an exception.
C13_Witness ==
    /\ last_call.op \in {"track_event", "flush"}
    /\ last_call.raised = None
    /\ Len(tasks) = last_call.tasks_before + 1
    /\ tasks[Len(tasks)].state = "pending"
    /\ \E i \in 1..last_call.tasks_before : tasks[i].result = "exception"

\* C14: when close() has returned, the buffer is empty, every event recorded
\* on the client is in a batch handed to a task, and the task of the final
\* flush has run.
C14_CloseFlushesAndWaits ==
    last_call.op = "close" =>
        LET cid == last_call.client
        IN  /\ last_call.raised = None
            /\ clients[cid].event_buffer = <<>>
            /\ \A k \in 1..Len(clients[cid].recorded) :
                   Count(clients[cid].recorded[k], Concat(Batches(cid))) = 1
            /\ last_call.buffer_before # <<>> =>
                   /\ Len(tasks) > last_call.tasks_before
                   /\ tasks[last_call.tasks_before + 1].state = "done"

----------------------------------------------------------------------------
(* Properties of the calls made without a client, under SpecBefore. *)

\* C15: while there is no global client, track_event(event) of the module
\* changes nothing and raises nothing; a wrapper entered without a client
\* calls the wrapped function once and ends as the function ends, and neither
\* its entry nor its end creates a client, a task, a trace context or an
\* event.
C15_NoClientIsNoOp ==
    [][/\ (global_client = 0 /\ global_client' = 0) =>
              /\ clients' = clients
              /\ tasks' = tasks
              /\ next_uuid' = next_uuid
              /\ last_call'.raised = None
              /\ \A i \in (Len(invocations) + 1)..Len(invocations') :
                     invocations'[i].client = 0
       /\ \A i \in 1..Len(invocations') :
              invocations'[i].client = 0 =>
                  /\ invocations'[i].func_calls = 1
                  /\ Finished(invocations'[i]) =>
                         invocations'[i].outcome = invocations'[i].func
       /\ (\E i \in 1..Len(invocations) :
              invocations[i].client = 0 /\ invocations'[i] # invocations[i]) =>
              /\ clients' = clients
              /\ tasks' = tasks
              /\ next_uuid' = next_uuid]_vars

\* An event recorded by hand without a client, after a wrapper entered
\* without a client has passed on the exception of its function.
C15_Witness ==
    /\ global_client = 0
    /\ last_call.op = "track_event"
    /\ \E i \in 1..Len(invocations) :
           /\ invocations[i].client = 0
           /\ invocations[i].outcome = [how |-> "raise", value |-> "e"]

----------------------------------------------------------------------------
(* Properties of the response and of the storage task, under SpecIngest. *)

\* How many entries of a queue or of a log are about the batch.
About(q, batch_id) ==
    Cardinality({i \in 1..Len(q) : q[i].batch_id = batch_id})
InQueue(batch_id) == About(background_tasks, batch_id)
InLog(batch_id) == About(storage_log, batch_id)

\* The response of an accepted batch counts every entry of the request, and
\* one task was added with it, holding the entries in order, each stamped
\* with the response's batch_id and the request's project_id.
AcceptedOnce(r) ==
    /\ r.events_received = Len(r.events)
    /\ Len(r.scheduled) = 1
    /\ r.scheduled[1].batch_id = r.batch_id
    /\ r.scheduled[1].events =
           [j \in 1..Len(r.events) |->
               [r.events[j] EXCEPT !.batch_id = r.batch_id, !.project_id = "p1"]]

\* C16: the response of an accepted batch is fixed when it is given and no
\* later step changes it, whether the storage task then stores, fails or has
\* not run; store_events_batch is scheduled exactly once per accepted batch,
\* with the validated events and the response's batch_id, never for a batch
\* that was not accepted, and it runs only for a batch already answered.
C16_ResponseBeforeStorage ==
    [][/\ Len(responses') >= Len(responses)
       /\ \A k \in 1..Len(responses) : responses'[k] = responses[k]
       /\ \A k \in 1..Len(responses') :
              LET r == responses'[k]
              IN  IF r.status = 200
                  THEN /\ AcceptedOnce(r)
                       /\ About(background_tasks', r.batch_id)
                              + About(storage_log', r.batch_id) = 1
                  ELSE r.scheduled = <<>>
       /\ \A i \in 1..Len(storage_log') :
              \E k \in 1..Len(responses) :
                  /\ responses[k].status = 200
                  /\ responses[k].batch_id = storage_log'[i].batch_id]_vars

\* Two accepted batches: the insert of one has failed, the task of the other
\* has not run yet.
C16_Witness ==
    \E k, m \in 1..Len(responses) :
        /\ responses[k].status = 200
        /\ responses[m].status = 200
        /\ \E i \in 1..Len(storage_log) :
               /\ storage_log[i].batch_id = responses[k].batch_id
               /\ storage_log[i].outcome = "insert_error"
        /\ InQueue(responses[m].batch_id) = 1

\* C17: when the insert of a batch has raised, store_events_batch has
\* returned normally, it has run once for the batch and is not queued again,
\* no row of the batch is in the table, and the producer's response is still
\* the success it was.
C17_StorageFailureSwallowed ==
    \A i \in 1..Len(storage_log) :
        storage_log[i].outcome = "insert_error" =>
            LET b == storage_log[i].batch_id
            IN  /\ storage_log[i].raised = None
                /\ InLog(b) = 1
                /\ InQueue(b) = 0
                /\ StoredRows(b) = 0
                /\ \E k \in 1..Len(responses) :
                       /\ responses[k].batch_id = b
                       /\ responses[k].status = 200
                       /\ responses[k].events_received = Len(responses[k].events)

\* A batch whose insert failed, and a later batch that was stored.
C17_Witness ==
    \E i, j \in 1..Len(storage_log) :
        /\ i < j
        /\ storage_log[i].outcome = "insert_error"
        /\ storage_log[j].outcome = "stored"
        /\ StoredRows(storage_log[j].batch_id) > 0

----------------------------------------------------------------------------
(* Properties of the aggregates, under SpecSummary. *)

\* Every order in which the rows of the table could have arrived.
PermsOf ==
    [n \in 0..MaxSummaryRows |->
        {f \in [1..n -> 1..n] : \A i, j \in 1..n : i # j => f[i] # f[j]}]
Permuted(table, f) == [i \in 1..Len(table) |-> table[f[i]]]

TimestampsOf(tr) ==
    {telemetry_events[i].timestamp :
        i \in {j \in 1..Len(telemetry_events) :
                  /\ telemetry_events[j].trace_id = tr
                  /\ telemetry_events[j].project_id = "p1"}}
Least(S) == CHOOSE x \in S : \A y \in S : x <= y
Greatest(S) == CHOOSE x \in S : \A y \in S : x >= y

\* C18: for every trace with events, in the detail and in the list, the
\* start time is the least timestamp of its events, the end time the
\* greatest, the duration their difference; and the whole summary (these,
\* the status, the cost and token sums, the agent and task counts) is the
\* same for every order in which the rows could have arrived.
C18_BoundsIndependentOfArrival ==
    \A tr \in Traces :
        TimestampsOf(tr) # {} =>
            LET detail == TraceSummary(telemetry_events, "p1", tr)
                list == RecentSummaries(telemetry_events, "p1")
                item == list[tr]
            IN  /\ detail.code = 200
                /\ detail.summary.start_time = Least(TimestampsOf(tr))
                /\ detail.summary.end_time = Greatest(TimestampsOf(tr))
                /\ detail.summary.duration =
                       Greatest(TimestampsOf(tr)) - Least(TimestampsOf(tr))
                /\ item.start_time = Least(TimestampsOf(tr))
                /\ item.duration =
                       Greatest(TimestampsOf(tr)) - Least(TimestampsOf(tr))
                /\ \A f \in PermsOf[Len(telemetry_events)] :
                       LET other == Permuted(telemetry_events, f)
                       IN  /\ TraceSummary(other, "p1", tr) = detail
                           /\ RecentSummaries(other, "p1") = list

\* A trace whose first stored row is neither its earliest nor its latest
\* event, and whose latest event was stored before its earliest.
C18_Witness ==
    /\ \E i, j, k \in 1..Len(telemetry_events) :
          /\ i < j /\ j < k
          /\ telemetry_events[i].trace_id = "t1"
          /\ telemetry_events[j].trace_id = "t1"
          /\ telemetry_events[k].trace_id = "t1"
          /\ telemetry_events[i].timestamp = 2
          /\ telemetry_events[j].timestamp = 3
          /\ telemetry_events[k].timestamp = 1
    /\ TraceSummary(telemetry_events, "p1", "t1").summary.duration = 2

\* The scopes of a cost breakdown: the time ranges [start_time, end_time]
\* around the timestamps of the rows.
Scopes == {w \in (0..3) \X (0..3) : w[1] <= w[2]}

InScope(w) ==
    {i \in 1..Len(telemetry_events) :
        /\ telemetry_events[i].project_id = "p1"
        /\ telemetry_events[i].timestamp >= w[1]
        /\ telemetry_events[i].timestamp <= w[2]
        /\ telemetry_events[i].cost_usd > 0}

RECURSIVE CostOf(_)
CostOf(S) ==
    IF S = {} THEN 0
    ELSE LET i == CHOOSE x \in S : TRUE
         IN  telemetry_events[i].cost_usd + CostOf(S \ {i})

RECURSIVE SumOfPercentages(_, _)
SumOfPercentages(b, G) ==
    IF G = {} THEN 0
    ELSE LET g == CHOOSE x \in G : TRUE
         IN  b[g].percentage + SumOfPercentages(b, G \ {g})

Distance(a, b) == IF a >= b THEN a - b ELSE b - a

\* The percentages of a breakdown, in tenths of a percent, sum to 100 within
\* the rounding of its items (half a tenth for each item).
SumsTo100(b) ==
    2 * Distance(SumOfPercentages(b, DOMAIN b), 1000) <= Cardinality(DOMAIN b)

\* C19 as stated: for every project and time range the percentages of the
\* cost breakdown sum to 100 within rounding tolerance.
C19_PercentagesSumTo100 ==
    \A w \in Scopes :
        SumsTo100(GetCostBreakdown(telemetry_events, "p1", w[1], w[2]))

\* C19, amended: the breakdown has an item exactly for every model_name with
\* an event of positive cost in the scope, the events without model_name
\* forming the item labelled 'Unknown'; each item's cost is the sum of its
\* events' costs rounded to cents and its percentage is the share of that
\* sum in the total, rounded to one decimal; and when the scope has at least one event of positive cost the
\* percentages sum to 100 within rounding tolerance. A scope without such an
\* event gives the empty list.
C19_PercentagesSumTo100IfAny ==
    \A w \in Scopes :
        LET b == GetCostBreakdown(telemetry_events, "p1", w[1], w[2])
            total == CostOf(InScope(w))
            Of(g) == {i \in InScope(w) : telemetry_events[i].model_name = g}
        IN  /\ DOMAIN b = {telemetry_events[i].model_name : i \in InScope(w)}
            /\ \A g \in DOMAIN b :
                   /\ b[g].model_name = IF g = None THEN "Unknown" ELSE g
                   /\ 2 * Distance(b[g].cost * 10, CostOf(Of(g))) <= 10
                   /\ 2 * Distance(b[g].percentage * total,
                                   CostOf(Of(g)) * 1000) <= total
            /\ InScope(w) # {} => SumsTo100(b)
            /\ InScope(w) = {} => DOMAIN b = {}

\* Three models of equal cost, one of them 'Unknown': 33.3 each, 99.9 in all.
C19_Witness ==
    LET b == GetCostBreakdown(telemetry_events, "p1", 0, 3)
    IN  /\ Cardinality(DOMAIN b) = 3
        /\ None \in DOMAIN b
        /\ b[None].model_name = "Unknown"
        /\ SumOfPercentages(b, DOMAIN b) = 999

----------------------------------------------------------------------------
(* Trace contexts of nested hooks                                            *)

\* The invocations that were entered with a client inside the span of an
\* invocation that has one.
Nested ==
    {i \in 1..Len(invocations) :
        /\ invocations[i].client # 0
        /\ invocations[i].parent # 0
        /\ invocations[invocations[i].parent].client # 0}

\* C20: every hook invocation has a span_id of its own, and a hook that runs
\* inside another hook's span has the trace_id of the enclosing span and the
\* enclosing span_id as its parent_span_id.
C20_NestedHooksShareTrace ==
    /\ \A i, j \in 1..Len(invocations) :
           (i # j /\ invocations[i].client # 0 /\ invocations[j].client # 0)
               => invocations[i].ctx.span_id # invocations[j].ctx.span_id
    /\ \A i \in Nested :
           LET outer == invocations[invocations[i].parent].ctx
           IN  /\ invocations[i].ctx.trace_id = outer.trace_id
               /\ invocations[i].ctx.parent_span_id = outer.span_id

----------------------------------------------------------------------------
(* Storage of an accepted batch, under SpecIngest.                           *)

\* The accepted events of a response that store_events_batch can flatten.
Flattenable(r) ==
    {i \in 1..Len(r.scheduled[1].events) : Flattens(r.scheduled[1].events[i])}

\* How the storage call of a batch ended.
OutcomeOf(batch_id) ==
    LET i == CHOOSE j \in 1..Len(storage_log) :
                 storage_log[j].batch_id = batch_id
    IN  storage_log[i].outcome

\* C21: once the storage of an accepted batch has run with a working insert,
\* the number of rows stored for the batch is the number of its events that
\* could be flattened: an event that cannot be flattened is skipped and the
\* others are inserted.
C21_MalformedEventNeverAbortsBatch ==
    \A k \in 1..Len(responses) :
        LET r == responses[k]
        IN  (r.status = 200 /\ InLog(r.batch_id) = 1
                /\ OutcomeOf(r.batch_id) # "insert_error")
                => StoredRows(r.batch_id) = Cardinality(Flattenable(r))

\* The rows stored for a batch, in the order they are in the table.
RowsOfBatch(batch_id) ==
    SelectSeq(telemetry_events, LAMBDA row : row.batch_id = batch_id)

\* The row the claim expects for entry j of the request of response r.
ExpectedRow(r, j) ==
    LET stamped == [r.events[j] EXCEPT !.batch_id = r.batch_id,
                                       !.project_id = "p1"]
    IN  [batch_id |-> r.batch_id,
         event_type |-> r.events[j].event_type,
         trace_id |-> IF r.events[j].trace_context.kind = "map"
                      THEN r.events[j].trace_context.trace_id ELSE None,
         project_id |-> "p1",
         raw_data |-> stamped]

\* C25: once the storage of an accepted batch has run with a working insert,
\* the table holds exactly one row per accepted event of the batch, in batch
\* order; every row carries the batch_id of the response and the request's
\* project_id, whatever the producer put under these keys, and its raw_data
\* is the stamped event.
C25_OneRowPerAcceptedEvent ==
    \A k \in 1..Len(responses) :
        LET r == responses[k]
        IN  (r.status = 200 /\ InLog(r.batch_id) = 1
                /\ OutcomeOf(r.batch_id) # "insert_error")
                => RowsOfBatch(r.batch_id) =
                       [j \in 1..Len(r.events) |-> ExpectedRow(r, j)]

\* C27: get_batch_status of a batch with stored rows answers 200 with status
\* 'processed' and events_count the number of stored rows of the batch, and
\* while the store answers its queries no batch_id is answered 500.
C27_BatchStatusReportsStoredBatch ==
    \A batch_id \in 1..(next_batch - 1) :
        LET answer == GetBatchStatus(telemetry_events, batch_id)
        IN  /\ answer.code # 500
            /\ StoredRows(batch_id) > 0 =>
                   /\ answer.code = 200
                   /\ answer.status = "processed"
                   /\ answer.events_count = StoredRows(batch_id)

----------------------------------------------------------------------------
(* Totals and counts of a trace, under SpecSummary.                          *)

SummaryTraces == {"t1", "t2", "t3"}

\* The rows of project p1 and trace tr, by position in the table.
EventsOf(tr) ==
    {i \in 1..Len(telemetry_events) :
        /\ telemetry_events[i].trace_id = tr
        /\ telemetry_events[i].project_id = "p1"}

\* The sum of a number column over the rows of S that have a value.
RECURSIVE SumPresent(_, _)
SumPresent(S, column) ==
    IF S = {} THEN 0
    ELSE LET i == CHOOSE x \in S : TRUE
             v == telemetry_events[i][column]
         IN  (IF v = NULL THEN 0 ELSE v) + SumPresent(S \ {i}, column)

Distinct(S, column) == {telemetry_events[i][column] : i \in S} \ {None}

\* total_tokens and the counts of a summary, as the claim states them.
TokensAndCounts(summary, tr) ==
    /\ summary.total_tokens = SumPresent(EventsOf(tr), "tokens_used")
    /\ summary.agents_count = Cardinality(Distinct(EventsOf(tr), "agent_id"))
    /\ summary.tasks_count = Cardinality(Distinct(EventsOf(tr), "task_id"))

\* C22 as stated: total_cost (in cents) is the sum of cost_usd (in
\* thousandths of a dollar) over the events of the trace that have it.
C22_TotalsAreSums ==
    \A tr \in SummaryTraces :
        EventsOf(tr) # {} =>
            LET detail == TraceSummary(telemetry_events, "p1", tr)
            IN  /\ detail.code = 200
                /\ detail.summary.total_cost * 10 =
                       SumPresent(EventsOf(tr), "cost_usd")
                /\ TokensAndCounts(detail.summary, tr)

\* C22, amended: total_cost is the sum of cost_usd over the events of the
\* trace that have it, rounded to two decimals; total_tokens is the sum of
\* tokens_used over the events that have it; agents_count and tasks_count
\* are the numbers of distinct agent_id and task_id values; a trace whose
\* events have none of the fields is answered with zeros. The list item of
\* the trace has the same values.
C22_TotalsAreRoundedSums ==
    \A tr \in SummaryTraces :
        EventsOf(tr) # {} =>
            LET detail == TraceSummary(telemetry_events, "p1", tr)
                item == RecentSummaries(telemetry_events, "p1")[tr]
                cost == SumPresent(EventsOf(tr), "cost_usd")
            IN  /\ detail.code = 200
                /\ 2 * Distance(detail.summary.total_cost * 10, cost) <= 10
                /\ TokensAndCounts(detail.summary, tr)
                /\ 2 * Distance(item.cost * 10, cost) <= 10
                /\ item.tokens = detail.summary.total_tokens
                /\ item.agents = detail.summary.agents_count
                /\ item.tasks = detail.summary.tasks_count

\* A trace with two events of two agents and one task, whose costs add up to
\* 0.008 dollars, shown as 0.01; and a trace whose event has none of the
\* fields, shown with zeros.
C22_Witness ==
    /\ Cardinality(EventsOf("t1")) = 2
    /\ SumPresent(EventsOf("t1"), "cost_usd") = 8
    /\ TraceSummary(telemetry_events, "p1", "t1").summary.total_cost = 1
    /\ TraceSummary(telemetry_events, "p1", "t1").summary.agents_count = 2
    /\ TraceSummary(telemetry_events, "p1", "t1").summary.tasks_count = 1
    /\ EventsOf("t3") # {}
    /\ TraceSummary(telemetry_events, "p1", "t3").summary.total_cost = 0
    /\ TraceSummary(telemetry_events, "p1", "t3").summary.total_tokens = 0
    /\ TraceSummary(telemetry_events, "p1", "t3").summary.agents_count = 0

----------------------------------------------------------------------------
(* Purity of the trace queries, under SpecSummary.                           *)

\* C23: two queries of the same trace over the same table give the same
\* answer in every field, name and environment included.
C23_TraceQueryIsPure ==
    \A tr \in SummaryTraces :
        \A first, second \in TraceDetails(telemetry_events, "p1", tr) :
            first = second

----------------------------------------------------------------------------
(* Project scoping of the trace detail, under SpecSummary.                   *)

SummaryProjects == {"p1", "p2"}

\* The table without the rows of the other projects.
Own(project_id) ==
    SelectSeq(telemetry_events, LAMBDA row : row.project_id = project_id)

HasEvents(project_id, tr) ==
    \E i \in 1..Len(telemetry_events) :
        /\ telemetry_events[i].project_id = project_id
        /\ telemetry_events[i].trace_id = tr

\* C28: the answers of get_trace_detail(trace_id, project_id) are those it
\* gives over the rows of project_id alone, in summary, timeline and
\* llm_calls; a trace_id without events under project_id is answered 404,
\* also when it has events under another project, and no answer is 500.
C28_DetailScopedToProject ==
    \A project_id \in SummaryProjects, tr \in SummaryTraces :
        LET answers == TraceDetails(telemetry_events, project_id, tr)
        IN  /\ answers = TraceDetails(Own(project_id), project_id, tr)
            /\ \A answer \in answers :
                   /\ answer.code = IF HasEvents(project_id, tr)
                                    THEN 200 ELSE 404
                   /\ answer.code = 200 =>
                          \A i \in 1..Len(answer.timeline) :
                              \E j \in 1..Len(telemetry_events) :
                                  /\ telemetry_events[j].project_id = project_id
                                  /\ telemetry_events[j].trace_id = tr
                                  /\ TimelineItem(telemetry_events[j])
                                         = answer.timeline[i]

\* Trace t1 has an error event and an LLM call under p2 and one LLM call
\* under p1: the detail for p1 is completed with that one call, and trace t2,
\* which has events under p1 only, is answered 404 for p2.
C28_Witness ==
    /\ \E i, j \in 1..Len(telemetry_events) :
           /\ telemetry_events[i].project_id = "p2"
           /\ telemetry_events[i].trace_id = "t1"
           /\ EndsIn(telemetry_events[i].event_type, "error")
           /\ telemetry_events[j].project_id = "p1"
           /\ telemetry_events[j].trace_id = "t1"
    /\ \A answer \in TraceDetails(telemetry_events, "p1", "t1") :
           /\ answer.code = 200
           /\ answer.summary.status = "completed"
           /\ Len(answer.llm_calls) = 1
           /\ Len(answer.timeline) = 1
    /\ HasEvents("p1", "t2")
    /\ TraceDetails(telemetry_events, "p2", "t2")
           = {[code |-> 404, detail |-> "Trace not found"]}

----------------------------------------------------------------------------
(* The list of recent traces, under SpecSummary.                             *)

Environments == {None, "production", "staging"}

\* The rows of project p1 that pass the environment filter, by position, and
\* the traces they belong to with their start times.
Matching(environment) ==
    {i \in 1..Len(telemetry_events) :
        /\ telemetry_events[i].project_id = "p1"
        /\ environment # None => telemetry_events[i].environment = environment}

MatchingTraces(environment) ==
    {telemetry_events[i].trace_id : i \in Matching(environment)}

StartOf(environment, tr) ==
    Least({telemetry_events[i].timestamp :
              i \in {j \in Matching(environment) :
                        telemetry_events[j].trace_id = tr}})

DistinctStarts(environment) ==
    \A a, b \in MatchingTraces(environment) :
        a # b => StartOf(environment, a) # StartOf(environment, b)

IdsOf(page) == [i \in 1..Len(page) |-> page[i].id]

\* The page at an offset, when the table leaves one possibility.
PageAt(environment, limit, offset) ==
    CHOOSE page \in RecentPages(telemetry_events, "p1", environment,
                                limit, offset) : TRUE

\* C24: every page of get_recent_traces holds at most limit items, each of a
\* different trace_id of the project that has an event passing the
\* environment filter, later start times first; it is empty only at an
\* offset past the last trace; and when the start times are distinct the
\* pages at offsets 0, limit, 2 * limit, ... put end to end list every such
\* trace exactly once.
C24_PagesPartitionTraces ==
    \A environment \in Environments, limit \in 1..MaxSummaryRows :
        LET ids == MatchingTraces(environment)
            n == Cardinality(ids)
        IN  /\ \A offset \in 0..n :
                   \A page \in RecentPages(telemetry_events, "p1",
                                           environment, limit, offset) :
                       /\ Len(page) <= limit
                       /\ Len(page) = 0 <=> offset >= n
                       /\ \A i \in 1..Len(page) : page[i].id \in ids
                       /\ \A i, j \in 1..Len(page) :
                              i < j => /\ page[i].id # page[j].id
                                       /\ StartOf(environment, page[i].id)
                                            >= StartOf(environment, page[j].id)
                       /\ \A i \in 1..Len(page) :
                              page[i].item.start_time
                                  = StartOf(environment, page[i].id)
            /\ DistinctStarts(environment) =>
                   LET listed == Concat([k \in 1..(n \div limit + 1) |->
                                   IdsOf(PageAt(environment, limit,
                                                (k - 1) * limit))])
                   IN  /\ Len(listed) = n
                       /\ {listed[i] : i \in 1..Len(listed)} = ids
                       /\ \A i, j \in 1..Len(listed) :
                              i < j => StartOf(environment, listed[i])
                                         > StartOf(environment, listed[j])

\* Three traces of distinct start times in pages of two: t1 and t3, then t2;
\* with the filter 'staging' the list is t1, t3.
C24_Witness ==
    /\ Cardinality(MatchingTraces(None)) = 3
    /\ DistinctStarts(None)
    /\ IdsOf(PageAt(None, 2, 0)) = <<"t1", "t3">>
    /\ IdsOf(PageAt(None, 2, 2)) = <<"t2">>
    /\ IdsOf(PageAt("staging", 2, 0)) = <<"t1", "t3">>
    /\ IdsOf(PageAt("production", 2, 0)) = <<"t2">>

----------------------------------------------------------------------------
(* The list item and the detail of a trace, under SpecSummary.               *)

\* The item and the detail give one account of the trace.
Agree(item, detail) ==
    /\ detail.code = 200
    /\ item.status = detail.summary.status
    /\ item.start_time = detail.summary.start_time
    /\ item.duration = detail.summary.duration
    /\ item.tokens = detail.summary.total_tokens
    /\ item.cost = detail.summary.total_cost
    /\ item.agents = detail.summary.agents_count
    /\ item.tasks = detail.summary.tasks_count

\* C26: every item of the list of recent traces taken without environment
\* filter agrees with every detail answer of its trace on status, start
\* time, duration, total tokens, total cost and the agent and task counts,
\* and every trace of the project has its item.
C26_ListAndDetailAgree ==
    \A page \in RecentPages(telemetry_events, "p1", None, MaxSummaryRows, 0) :
        /\ {page[i].id : i \in 1..Len(page)} = MatchingTraces(None)
        /\ \A i \in 1..Len(page) :
               \A detail \in TraceDetails(telemetry_events, "p1", page[i].id) :
                   Agree(page[i].item, detail)

\* A failed trace that lasted two ticks, with tokens, a cost that rounds up
\* and two agents, is in the list.
C26_Witness ==
    \E page \in RecentPages(telemetry_events, "p1", None, MaxSummaryRows, 0) :
        \E i \in 1..Len(page) :
            /\ page[i].item.status = "failed"
            /\ page[i].item.duration = 2
            /\ page[i].item.tokens = 12
            /\ page[i].item.cost = 1
            /\ page[i].item.agents = 2
            /\ page[i].item.tasks = 1

----------------------------------------------------------------------------
(* The maps of the CrewAI integration, under SpecCrew.                       *)

\* The crew_ids of the instrumented kickoffs that are in progress.
InProgress ==
    {kickoffs[i].crew_id :
        i \in {j \in 1..Len(kickoffs) : /\ kickoffs[j].client # 0
                                        /\ kickoffs[j].outcome = Running}}

\* C29: _active_traces and _crew_start_times have the same keys, the crew_ids
\* of the kickoffs in progress; the crew_id of a kickoff that has returned or
\* raised is in neither map.
C29_MapsHoldKickoffsInProgress ==
    /\ DOMAIN active_traces = DOMAIN crew_start_times
    /\ DOMAIN active_traces = InProgress

----------------------------------------------------------------------------
(* The global client, under SpecGlobal.                                      *)

\* A wrapper that took client i from get_client() when it was entered
\* finishes in this step.
WrapperCompletesOn(i) ==
    \E k \in 1..Len(invocations) :
        /\ invocations[k].client = i
        /\ invocations[k].outcome = Running
        /\ invocations'[k].outcome # Running

\* C30: get_client() is None until the first initialize() and from then on
\* the client of the most recent initialize(). initialize() leaves the
\* client it replaces as it is, and no call that goes through get_client()
\* after the replacement touches a replaced client: its buffer stays and no
\* task is created for it. (A decorator wrapper that was entered before the
\* replacement still records its end event on the client it took.)
C30_OnlyLatestClientReachable ==
    [][/\ global_client = Len(clients)
       /\ global_client' = Len(clients')
       /\ \A i \in 1..Len(clients) :
              i # global_client' =>
                  \/ /\ clients'[i] = clients[i]
                     /\ TasksOf(i)' = TasksOf(i)
                  \/ WrapperCompletesOn(i)]_vars

\* The first client was replaced with an event in its buffer; since then a
\* decorated function has run on the second client and a batch of the second
\* client was handed to a task, and the first client's event is where it was.
C30_Witness ==
    /\ Len(clients) = 2
    /\ global_client = 2
    /\ clients[1].event_buffer # <<>>
    /\ clients[1].event_buffer = clients[1].recorded
    /\ TasksOf(1) = <<>>
    /\ TasksOf(2) # <<>>
    /\ \E k \in 1..Len(invocations) :
           invocations[k].client = 2 /\ invocations[k].outcome # Running

====
